---- MODULE Spec2Model ----
(***************************************************************************)
(* Hours-and-pay forecast of hoursappcf.                                   *)
(*                                                                         *)
(* The repository holds several revisions of the same application.  The    *)
(* model carries the revision in the variable rev and every operator that  *)
(* differs between revisions branches on it:                               *)
(*   "App.jsx"   src/src/App.jsx (src/unnamed/part_002 has the same        *)
(*               calculation and handlers): the calculation is a useEffect *)
(*               that writes result state with setters;                    *)
(*   "part_000"  src/unnamed/part_000: calculateAllTotals(inputs) called   *)
(*               from useMemo, only Weekly and Fortnightly cases;          *)
(*   "part_001"  src/unnamed/part_001 lines 1-749: calculateAllTotals      *)
(*               from useMemo, the budget suggestion in its own useMemo;   *)
(*   "part_001b" src/unnamed/part_001 lines 751-1456: as part_000 with all *)
(*               five recurrence cases.                                    *)
(*                                                                         *)
(* Numbers.  Hours are integers in thousandths of an hour, rates are whole *)
(* dollars, so a pay is an integer in thousandths of a dollar; a figure    *)
(* rounded to two decimals is an integer in hundredths.  Arithmetic is     *)
(* exact (binary floating point error is not modelled).                    *)
(*                                                                         *)
(* Dates.  A calendar date is its day index from 2025-01-01 (index 0, a    *)
(* Wednesday); 2025 and 2026 have 365 days each.  A JavaScript Date at     *)
(* local midnight of that date has the time value 24 * index - tz hours,   *)
(* where tz is the host's fixed offset from UTC in hours (daylight saving  *)
(* changes are not modelled).                                              *)
(***************************************************************************)
EXTENDS Integers, Sequences, FiniteSets, TLC

VARIABLES rev, tz, fromDate, toDate, recurringType, weeklyDays,
          includePublicHolidays, publicHolidaysInput, rates, budget,
          budgetMode, results, error, pc, edits,
          ndisRates, rateInfo, quoteDescription, savedQuotes, uuidCount

inputVars == <<fromDate, toDate, recurringType, weeklyDays,
               includePublicHolidays, publicHolidaysInput, rates, budget,
               budgetMode>>
\* the rate catalogue as fetched, the catalogue name and number kept with
\* each rate, and the saved quotes with the description field above them
\* (uuidCount counts the identifiers crypto.randomUUID() has handed out)
quoteVars == <<quoteDescription, savedQuotes, uuidCount>>
vars == <<rev, tz, fromDate, toDate, recurringType, weeklyDays,
          includePublicHolidays, publicHolidaysInput, rates, budget,
          budgetMode, results, error, pc, edits,
          ndisRates, rateInfo, quoteDescription, savedQuotes, uuidCount>>

(***************************************************************************)
(* Bounds of the model.                                                    *)
(***************************************************************************)
MaxDay == 99
MaxEdits == 2

(***************************************************************************)
(* Representation of text fields and of JavaScript's undefined.            *)
(***************************************************************************)
\* the empty string '' of a number field
Blank == -1
\* a date field that does not parse ('' of a cleared date input)
InvalidDate == -1000
\* an empty token of the holiday text (dropped by filter)
BlankToken == -2000
\* a result field that the revision does not produce (undefined)
Undefined == -1

Revisions == {"App.jsx", "part_000", "part_001", "part_001b"}
\* revisions whose calculation is a useEffect writing state with setters
EffectRevisions == {"App.jsx"}
\* revisions whose switch has the Daily, Monthly and Quarterly cases
FiveCaseRevisions == {"App.jsx", "part_001", "part_001b"}

WEEK_DAYS_ORDER ==
    <<"Sunday", "Monday", "Tuesday", "Wednesday", "Thursday", "Friday", "Saturday">>
DayNames == {WEEK_DAYS_ORDER[i] : i \in 1..7}
RateKeys == {"weekday", "weekdayEvening", "saturday", "sunday", "publicHoliday"}

\* 2025-01-01 ... 2025-12-26 as day indexes
DEFAULT_QLD_PUBLIC_HOLIDAYS ==
    <<0, 26, 107, 108, 109, 110, 114, 124, 224, 278, 357, 358, 359>>

(***************************************************************************)
(* JavaScript Date, for a host at fixed offset tz.                         *)
(***************************************************************************)
DaysPerYear == 365
HoursPerDay == 24
\* getDay() of 2025-01-01 (Wednesday)
EpochWeekday == 3
\* day-of-year of the first day of each month, non-leap year
MonthStarts == <<0, 31, 59, 90, 120, 151, 181, 212, 243, 273, 304, 334>>

DayOfYear(d) == d % DaysPerYear
getFullYear(d) == 2025 + (d \div DaysPerYear)
\* the 0-based month: the number of month starts up to the day, less one
getMonth(d) == Cardinality({m \in 1..12 : MonthStarts[m] <= DayOfYear(d)}) - 1
getDate(d) == DayOfYear(d) - MonthStarts[getMonth(d) + 1] + 1
getDay(d) == (EpochWeekday + d) % 7
\* d.setDate(n): day n counted from the first day of d's month
setDate(d, n) == (d - getDate(d)) + n
\* d.getTime(), in hours from 2025-01-01T00:00Z
getTime(d, zone) == HoursPerDay * d - zone
\* d.toISOString().split('T')[0]: the UTC calendar date of the instant
toISODateString(d, zone) == getTime(d, zone) \div HoursPerDay
\* new Date(s + 'T00:00:00'): local midnight of s, NaN for an unparsable s
isNaNDate(s) == s = InvalidDate

(***************************************************************************)
(* Helpers.                                                                *)
(***************************************************************************)
\* a string with thousands separators, "1,234.50": the text formatNumber
\* gives for a value v of 1000 or more (v in thousandths)
Grouped(v) == -v - 10
isGrouped(x) == x <= Grouped(1000000)
\* parseFloat stops at the first comma: the leading group of digits
leadingGroup(whole) ==
    IF whole < 1000 THEN whole
    ELSE IF whole < 1000000 THEN whole \div 1000
    ELSE whole \div 1000000

\* parseFloat(x) || 0
ParseFloatOr0(x) ==
    IF x = Blank THEN 0
    ELSE IF isGrouped(x) THEN 1000 * leadingGroup((-x - 10) \div 1000)
    ELSE x

CeilDiv(a, b) == -((-a) \div b)

\* variant: Math.floor(num * 100) / 100
roundDownToTwoDecimals(num) == num \div 10

\* Math.ceil(num * 100) / 100: from thousandths to hundredths
roundUpToTwoDecimals(num) == CeilDiv(num, 10)

Max(a, b) == IF a >= b THEN a ELSE b

RECURSIVE GCD(_, _)
GCD(a, b) == IF b = 0 THEN a ELSE GCD(b, a % b)

\* a * b / c rounded up, and rounded to nearest (half up), for c > 0;
\* common factors are cancelled before the product is taken
CeilMulDiv(a, b, c) ==
    LET g1 == GCD(a, c)
        g2 == GCD(b, c \div g1)
    IN  CeilDiv((a \div g1) * (b \div g2), (c \div g1) \div g2)
RoundMulDiv(a, b, c) ==
    LET g1 == GCD(a, c)
        g2 == GCD(b, c \div g1)
        q == (c \div g1) \div g2
    IN  (2 * (a \div g1) * (b \div g2) + q) \div (2 * q)

\* num.toLocaleString('en-US', { minimumFractionDigits: 2, maximumFractionDigits: 2 })
\* of the number a * b / c: two decimals, rounded to nearest, thousands grouped
formatNumber(a, b, c) ==
    LET v == 10 * RoundMulDiv(a, b, 10 * c)
    IN  IF v >= 1000000 THEN Grouped(v) ELSE v

(***************************************************************************)
(* Strings, character by character.                                        *)
(***************************************************************************)
UpperCase == "ABCDEFGHIJKLMNOPQRSTUVWXYZ"
LowerCase == "abcdefghijklmnopqrstuvwxyz"
charAt(s, i) == SubSeq(s, i, i)
\* the position of each capital letter in UpperCase
UpperIndex ==
    [c \in {charAt(UpperCase, i) : i \in 1..Len(UpperCase)} |->
        CHOOSE i \in 1..Len(UpperCase) : charAt(UpperCase, i) = c]
LowerOf == [i \in 1..Len(LowerCase) |-> charAt(LowerCase, i)]
lowerChar(c) == IF c \in DOMAIN UpperIndex THEN LowerOf[UpperIndex[c]] ELSE c
RECURSIVE toLowerCase(_)
toLowerCase(s) ==
    IF Len(s) = 0 THEN ""
    ELSE lowerChar(charAt(s, 1)) \o toLowerCase(SubSeq(s, 2, Len(s)))
\* s.includes(sub)
includes(s, sub) ==
    \E i \in 0..(Len(s) - Len(sub)) : SubSeq(s, i + 1, i + Len(sub)) = sub
\* p occurs in s at position i
startsWithAt(s, i, p) ==
    i + Len(p) - 1 <= Len(s) /\ SubSeq(s, i, i + Len(p) - 1) = p
\* s.trim(), for the space character
RECURSIVE trim(_)
trim(s) ==
    IF Len(s) > 0 /\ charAt(s, 1) = " " THEN trim(SubSeq(s, 2, Len(s)))
    ELSE IF Len(s) > 0 /\ charAt(s, Len(s)) = " " THEN trim(SubSeq(s, 1, Len(s) - 1))
    ELSE s

(***************************************************************************)
(* The rate catalogue.  An entry is [name, number, QLD]: "Support Item     *)
(* Name", "Support Item Number" and the QLD price in whole dollars         *)
(* (Undefined when the entry has none).                                    *)
(***************************************************************************)
\* useState of a rate: { name: '', rate: '', number: '' }
NoRateInfo == [name |-> "", number |-> ""]

\* getInfo(i): the rate text is (i.QLD || 0).toString()
getInfo(i) ==
    [name |-> i.name, rate |-> IF i.QLD = Undefined THEN 0 ELSE i.QLD,
     number |-> i.number]

\* the alternatives of / - (weekday|saturday|...|day).*/
SuffixVocabulary ==
    {"weekday", "saturday", "sunday", "public holiday", "evening", "night",
     "daytime", "day"}

\* a match of the regular expression starts at position i of s
suffixStartsAt(s, i) ==
    /\ startsWithAt(s, i, " - ")
    /\ \E w \in SuffixVocabulary : startsWithAt(s, i + 3, w)

\* s.replace(/ - (weekday|...|day).*/, ''): the leftmost match to the end
stripSuffix(s) ==
    LET starts == {i \in 1..Len(s) : suffixStartsAt(s, i)}
    IN  IF starts = {} THEN s
        ELSE SubSeq(s, 1, (CHOOSE i \in starts : \A j \in starts : i <= j) - 1)

\* item["Support Item Name"].toLowerCase().replace(...).trim()
baseNameOf(name) == trim(stripSuffix(toLowerCase(name)))

\* const mappings = { weekdayEvening: ['evening', 'night'], ... }
rateMappings ==
    [weekdayEvening |-> {"evening", "night"}, saturday |-> {"saturday"},
     sunday |-> {"sunday"}, publicHoliday |-> {"public holiday"}]

\* the predicate of ndisRates.find
nameMatches(entry, baseName, keywords) ==
    LET name == toLowerCase(entry.name)
    IN  includes(name, baseName) /\ \E kw \in keywords : includes(name, kw)

\* ndisRates.find(...): the index of the first entry that matches, 0 for none
findRelated(catalogue, baseName, keywords) ==
    LET hits == {i \in 1..Len(catalogue) : nameMatches(catalogue[i], baseName, keywords)}
    IN  IF hits = {} THEN 0 ELSE CHOOSE i \in hits : \A j \in hits : i <= j

\* the rate entries [rate, name, number] after handleNdisRateSelect(rateType, item)
\*   part_000:  setRates(prev => ({...prev, [rateType + 'Rate']: rate }))
\*   part_001:  with rateType 'weekday', the related entries found are merged
rateEntriesAfterSelect(r, catalogue, entries, rateType, item) ==
    IF r = "part_000"
    THEN [entries EXCEPT ![rateType].rate = getInfo(item).rate]
    ELSE IF rateType = "weekday"
    THEN LET baseName == baseNameOf(item.name)
             related(key) ==
                 LET found == findRelated(catalogue, baseName, rateMappings[key])
                 IN  IF found # 0 THEN getInfo(catalogue[found]) ELSE entries[key]
         IN  [weekday |-> getInfo(item),
              weekdayEvening |-> related("weekdayEvening"),
              saturday |-> related("saturday"),
              sunday |-> related("sunday"),
              publicHoliday |-> related("publicHoliday")]
    ELSE [entries EXCEPT ![rateType] = getInfo(item)]

\* the items a dropdown offers: every includeKeyword and no excludeKeyword
\* is in the lower-cased name (the search text is free)
rateFinderConfig ==
    [weekday |-> [include |-> {}, exclude |-> {"evening", "saturday", "sunday", "public holiday"}],
     weekdayEvening |-> [include |-> {"weekday", "evening"}, exclude |-> {}],
     saturday |-> [include |-> {"saturday"}, exclude |-> {}],
     sunday |-> [include |-> {"sunday"}, exclude |-> {}],
     publicHoliday |-> [include |-> {"public holiday"}, exclude |-> {}]]
preFiltered(rateType, item) ==
    LET itemNameLower == toLowerCase(item.name)
    IN  /\ \A kw \in rateFinderConfig[rateType].include : includes(itemNameLower, kw)
        /\ ~\E kw \in rateFinderConfig[rateType].exclude : includes(itemNameLower, kw)

\* variant: the holiday text is parsed whether or not holidays are observed
HolidaySetOfAnyText(include, text) ==
    {text[i] : i \in 1..Len(text)} \ {BlankToken}

HolidaySetOf(include, text) ==
    IF include
    THEN {text[i] : i \in 1..Len(text)} \ {BlankToken}
    ELSE {}

(***************************************************************************)
(* calculateAllTotals.  inp is the input snapshot: the fields of the       *)
(* inputs object (part_000, part_001) or the state the effect closes over  *)
(* (App.jsx), together with the revision and the host's time zone.         *)
(***************************************************************************)
\* holidaySet and numRates are the constants the function computes before
\* the loop: new Set(includePublicHolidays ? publicHolidaysInput.split(',')
\* .map(d => d.trim()).filter(Boolean) : []) and parseFloat(rate) || 0
InputsOf(r, z, f, t, rt, wd, inc, txt, rs, b, bm) ==
    [rev |-> r, tz |-> z, fromDate |-> f, toDate |-> t, recurringType |-> rt,
     weeklyDays |-> wd, includePublicHolidays |-> inc,
     publicHolidaysInput |-> txt, rates |-> rs, budget |-> b, budgetMode |-> bm,
     holidaySet |-> HolidaySetOf(inc, txt),
     numRates |-> [k \in RateKeys |-> ParseFloatOr0(rs[k])]]

\* isNaN(start.getTime()) || isNaN(end.getTime()) || start > end
InvalidRange(inp) ==
    \/ isNaNDate(inp.fromDate)
    \/ isNaNDate(inp.toDate)
    \/ getTime(inp.fromDate, inp.tz) > getTime(inp.toDate, inp.tz)

dayNameOf(d) == WEEK_DAYS_ORDER[getDay(d) + 1]

hoursTodayOf(inp, d) == ParseFloatOr0(inp.weeklyDays[dayNameOf(d)].hours)

\* variant: the odd blocks of seven days are live
FortnightlyLiveOdd(d, start, zone) ==
    (((getTime(d, zone) - getTime(start, zone)) \div HoursPerDay) \div 7) % 2 = 1

\* Math.floor(daysSinceStart / 7) % 2 === 0, with
\* daysSinceStart = Math.floor((d.getTime() - start.getTime()) / (1000 * 3600 * 24))
FortnightlyLive(d, start, zone) ==
    (((getTime(d, zone) - getTime(start, zone)) \div HoursPerDay) \div 7) % 2 = 0

\* d.getDate() <= 7
InFirstSevenDays(d) == getDate(d) <= 7

\* [0, 3, 6, 9].includes(d.getMonth())
QuarterMonths == {0, 3, 6, 9}

\* variant: Daily counts the days of the first week of a month only
shouldCountDailyFirstWeek(inp, d) ==
    CASE inp.recurringType = "Daily" -> InFirstSevenDays(d)
      [] inp.recurringType = "Fortnightly" ->
            FortnightlyLive(d, inp.fromDate, inp.tz)
      [] inp.recurringType = "Monthly" /\ inp.rev \in FiveCaseRevisions ->
            InFirstSevenDays(d)
      [] inp.recurringType = "Quarterly" /\ inp.rev \in FiveCaseRevisions ->
            getMonth(d) \in QuarterMonths /\ InFirstSevenDays(d)
      [] OTHER -> inp.recurringType = "Weekly" \/ inp.rev \notin EffectRevisions

\* variant: Weekly counts the odd blocks of seven days only
shouldCountWeeklyOddBlocks(inp, d) ==
    CASE inp.recurringType = "Daily" /\ inp.rev \in FiveCaseRevisions -> TRUE
      [] inp.recurringType = "Weekly" -> FortnightlyLiveOdd(d, inp.fromDate, inp.tz)
      [] inp.recurringType = "Fortnightly" ->
            FortnightlyLive(d, inp.fromDate, inp.tz)
      [] inp.recurringType = "Monthly" /\ inp.rev \in FiveCaseRevisions ->
            InFirstSevenDays(d)
      [] inp.recurringType = "Quarterly" /\ inp.rev \in FiveCaseRevisions ->
            getMonth(d) \in QuarterMonths /\ InFirstSevenDays(d)
      [] OTHER -> inp.rev \notin EffectRevisions

\* the switch on recurringType
shouldCount(inp, d) ==
    CASE inp.recurringType = "Daily" /\ inp.rev \in FiveCaseRevisions -> TRUE
      [] inp.recurringType = "Weekly" -> TRUE
      [] inp.recurringType = "Fortnightly" ->
            FortnightlyLive(d, inp.fromDate, inp.tz)
      [] inp.recurringType = "Monthly" /\ inp.rev \in FiveCaseRevisions ->
            InFirstSevenDays(d)
      [] inp.recurringType = "Quarterly" /\ inp.rev \in FiveCaseRevisions ->
            getMonth(d) \in QuarterMonths /\ InFirstSevenDays(d)
      [] OTHER -> inp.rev \notin EffectRevisions

\* does the loop body count day d
\*   App.jsx:   if (isDaySelectedInPattern && shouldCountThisDayInForecast)
\*   part_00x:  continue unless selected; continue if hoursToday === 0; if (shouldCount)
countsDay(inp, d) ==
    IF inp.rev \in EffectRevisions
    THEN inp.weeklyDays[dayNameOf(d)].selected /\ shouldCount(inp, d)
    ELSE /\ inp.weeklyDays[dayNameOf(d)].selected
         /\ hoursTodayOf(inp, d) # 0
         /\ shouldCount(inp, d)

\* holidaySet.has(d.toISOString().split('T')[0])
isHoliday(inp, d) ==
    toISODateString(d, inp.tz) \in inp.holidaySet

\* the if / else-if chain that picks the bucket of a counted day
categoryOf(inp, d) ==
    IF isHoliday(inp, d) THEN "publicHoliday"
    ELSE IF dayNameOf(d) = "Saturday" THEN "saturday"
    ELSE IF dayNameOf(d) = "Sunday" THEN "sunday"
    ELSE IF inp.rev \notin EffectRevisions
            /\ inp.weeklyDays[dayNameOf(d)].shift = "evening"
         THEN "weekdayEvening"
         ELSE "weekday"

\* the rate App.jsx multiplies a day's hours by when it adds to finalTotalPay
dayRate(inp, cat) ==
    IF cat = "weekdayEvening" THEN 0 ELSE inp.numRates[cat]

ZeroTotals ==
    [hours |-> [k \in RateKeys |-> 0],
     days |-> 0, weekdays |-> 0, saturdays |-> 0, sundays |-> 0,
     publicHolidays |-> 0,
     finalTotalHours |-> 0, finalTotalPay |-> 0,
     visited |-> << >>]

\* variant: an evening weekday is left out of the weekday counter
bumpCountersNoEvening(acc, cat) ==
    [acc EXCEPT !.days = @ + 1,
                !.weekdays = IF cat = "weekday" THEN @ + 1 ELSE @,
                !.saturdays = IF cat = "saturday" THEN @ + 1 ELSE @,
                !.sundays = IF cat = "sunday" THEN @ + 1 ELSE @,
                !.publicHolidays = IF cat = "publicHoliday" THEN @ + 1 ELSE @]

\* the counters a counted day of bucket cat increments
bumpCounters(acc, cat) ==
    [acc EXCEPT !.days = @ + 1,
                !.weekdays = IF cat \in {"weekday", "weekdayEvening"} THEN @ + 1 ELSE @,
                !.saturdays = IF cat = "saturday" THEN @ + 1 ELSE @,
                !.sundays = IF cat = "sunday" THEN @ + 1 ELSE @,
                !.publicHolidays = IF cat = "publicHoliday" THEN @ + 1 ELSE @]

\* one iteration of the for loop; visited records the iteration
loopBody(inp, d, acc) ==
    IF countsDay(inp, d)
    THEN LET cat == categoryOf(inp, d)
             h == hoursTodayOf(inp, d)
             counted == bumpCounters(acc, cat)
         IN [counted EXCEPT
                !.hours[cat] = @ + h,
                !.finalTotalHours = @ + h,
                !.finalTotalPay = @ + h * dayRate(inp, cat),
                !.visited = Append(@, [date |-> d, category |-> cat, hours |-> h])]
    ELSE [acc EXCEPT
                !.visited = Append(@, [date |-> d, category |-> "skipped", hours |-> 0])]

\* variant: d < end
loopContinuesStrict(d, end, zone) == getTime(d, zone) < getTime(end, zone)

\* the loop condition d <= end
loopContinues(d, end, zone) == getTime(d, zone) <= getTime(end, zone)

\* for (let d = new Date(start); d <= end; d.setDate(d.getDate() + 1))
\* st is the loop state: the Date d and the totals so far
RECURSIVE dayLoop(_, _)
dayLoop(inp, st) ==
    IF loopContinues(st.d, inp.toDate, inp.tz)
    THEN dayLoop(inp, [d |-> setDate(st.d, getDate(st.d) + 1),
                       acc |-> loopBody(inp, st.d, st.acc)])
    ELSE st.acc

(***************************************************************************)
(* The result of a calculation.  A field a revision does not produce is    *)
(* Undefined; visited and unroundedPay are history fields (the iterations  *)
(* of the loop and the pay object before rounding).                        *)
(***************************************************************************)
NoSuggestion ==
    [present |-> FALSE, num |-> 0, den |-> 1, hours |-> [n \in DayNames |-> 0]]

\* variant: an unselected slot is scaled like a selected one
SuggestionOfEverySlot(inp, num, den) ==
    [present |-> TRUE, num |-> num \div GCD(num, den), den |-> den \div GCD(num, den),
     hours |-> [n \in DayNames |-> ParseFloatOr0(inp.weeklyDays[n].hours)]]

\* variant: the factor is the current pay divided by the budget
SuggestionOfInverse(inp, num, den) ==
    [present |-> TRUE, num |-> den \div GCD(num, den), den |-> num \div GCD(num, den),
     hours |-> [n \in DayNames |->
                  IF inp.weeklyDays[n].selected
                  THEN ParseFloatOr0(inp.weeklyDays[n].hours)
                  ELSE 0]]

\* hourScalingFactor is num / den, kept in lowest terms; the suggested hours
\* of a slot are hours[slot] * num / den
SuggestionOf(inp, num, den) ==
    [present |-> TRUE, num |-> num \div GCD(num, den), den |-> den \div GCD(num, den),
     hours |-> [n \in DayNames |->
                  IF inp.weeklyDays[n].selected
                  THEN ParseFloatOr0(inp.weeklyDays[n].hours)
                  ELSE 0]]

\* return { error: 'Please enter valid "From" and "To" dates.' }
ErrorResult ==
    [error |-> "range",
     totalHours |-> Undefined, totalPay |-> Undefined,
     weekdayHours |-> Undefined, weekdayEveningHours |-> Undefined,
     saturdayHours |-> Undefined, sundayHours |-> Undefined,
     publicHolidayHours |-> Undefined,
     weekdayPay |-> Undefined, weekdayEveningPay |-> Undefined,
     saturdayPay |-> Undefined, sundayPay |-> Undefined,
     publicHolidayPay |-> Undefined,
     calculatedTotalDays |-> Undefined, calculatedTotalWeekdays |-> Undefined,
     calculatedTotalSaturdays |-> Undefined, calculatedTotalSundays |-> Undefined,
     calculatedTotalPublicHolidays |-> Undefined,
     calculatedFullWeeks |-> Undefined, calculatedFullFortnights |-> Undefined,
     calculatedFullMonths |-> Undefined,
     suggestedDailyHours |-> NoSuggestion,
     visited |-> << >>,
     unroundedPay |-> [k \in RateKeys |-> 0]]

\* variant: every bucket is paid at the weekday rate
payOfWeekdayRate(inp, acc) == [k \in RateKeys |-> acc.hours[k] * inp.numRates["weekday"]]

\* const pay = { weekdayPay: totals.weekdayHours * numRates.weekday, ... }
payOf(inp, acc) == [k \in RateKeys |-> acc.hours[k] * inp.numRates[k]]

SumOver(f) ==
    f["weekday"] + f["weekdayEvening"] + f["saturday"] + f["sunday"] + f["publicHoliday"]

\* variant: the category pays are rounded before they are added
totalPayOfRoundedParts(inp, acc) ==
    10 * SumOver([k \in RateKeys |-> roundUpToTwoDecimals(payOf(inp, acc)[k])])

\* the total that is rounded into totalPay
\*   App.jsx:  finalTotalPay, accumulated day by day
\*   part_00x: Object.values(pay).reduce((sum, p) => sum + p, 0)
totalPayOf(inp, acc) ==
    IF inp.rev \in EffectRevisions
    THEN acc.finalTotalPay
    ELSE SumOver(payOf(inp, acc))

totalHoursOf(inp, acc) ==
    IF inp.rev \in EffectRevisions
    THEN acc.finalTotalHours
    ELSE SumOver(acc.hours)

\* variant: the month difference is not decremented for an incomplete month
monthsDiffOfWholeMonths(start, end) ==
    (getFullYear(end) - getFullYear(start)) * 12 - getMonth(start) + getMonth(end)

\* calendar month difference of the range
monthsDiffOf(start, end) ==
    LET m == (getFullYear(end) - getFullYear(start)) * 12 - getMonth(start) + getMonth(end)
    IN  IF getDate(end) < getDate(start) /\ m > 0 THEN m - 1 ELSE m

\* variant: the suggestion is computed whatever the budget mode
suggestionOfAnyMode(inp, acc) ==
    IF ParseFloatOr0(inp.budget) > 0 /\ totalPayOf(inp, acc) > 0
    THEN SuggestionOf(inp, ParseFloatOr0(inp.budget) * 1000, totalPayOf(inp, acc))
    ELSE NoSuggestion

\* the budget suggestion computed with the totals
\*   App.jsx:   budgetMode === 'lock' && numBudget > 0 && finalTotalPay > 0 && finalTotalHours > 0
\*   part_000:  budgetMode === 'lock' && numBudget > 0 && totalPay > 0
\*   part_001:  budgetMode === 'lock' && budget > 0 && calculationResults.totalPay > 0
suggestionOf(inp, acc) ==
    LET numBudget == ParseFloatOr0(inp.budget)
        pay == totalPayOf(inp, acc)
    IN  CASE inp.rev \in EffectRevisions ->
                IF inp.budgetMode = "lock" /\ numBudget > 0 /\ pay > 0
                   /\ totalHoursOf(inp, acc) > 0
                THEN SuggestionOf(inp, numBudget * 1000, pay)
                ELSE NoSuggestion
          [] inp.rev = "part_001" ->
                IF inp.budgetMode = "lock" /\ numBudget > 0
                   /\ roundUpToTwoDecimals(pay) > 0
                THEN SuggestionOf(inp, numBudget * 100, roundUpToTwoDecimals(pay))
                ELSE NoSuggestion
          [] OTHER ->
                IF inp.budgetMode = "lock" /\ numBudget > 0 /\ pay > 0
                THEN SuggestionOf(inp, numBudget * 1000, pay)
                ELSE NoSuggestion

\* the result object (part_00x) or the values handed to the setters (App.jsx)
resultOf(inp, acc) ==
    [error |-> "",
     totalHours |-> roundUpToTwoDecimals(totalHoursOf(inp, acc)),
     totalPay |-> roundUpToTwoDecimals(totalPayOf(inp, acc)),
     weekdayHours |-> roundUpToTwoDecimals(acc.hours["weekday"]),
     weekdayEveningHours |->
        IF inp.rev \in EffectRevisions THEN Undefined
        ELSE roundUpToTwoDecimals(acc.hours["weekdayEvening"]),
     saturdayHours |-> roundUpToTwoDecimals(acc.hours["saturday"]),
     sundayHours |-> roundUpToTwoDecimals(acc.hours["sunday"]),
     publicHolidayHours |-> roundUpToTwoDecimals(acc.hours["publicHoliday"]),
     weekdayPay |-> roundUpToTwoDecimals(payOf(inp, acc)["weekday"]),
     weekdayEveningPay |->
        IF inp.rev \in EffectRevisions THEN Undefined
        ELSE roundUpToTwoDecimals(payOf(inp, acc)["weekdayEvening"]),
     saturdayPay |-> roundUpToTwoDecimals(payOf(inp, acc)["saturday"]),
     sundayPay |-> roundUpToTwoDecimals(payOf(inp, acc)["sunday"]),
     publicHolidayPay |-> roundUpToTwoDecimals(payOf(inp, acc)["publicHoliday"]),
     calculatedTotalDays |-> acc.days,
     calculatedTotalWeekdays |-> acc.weekdays,
     calculatedTotalSaturdays |-> acc.saturdays,
     calculatedTotalSundays |-> acc.sundays,
     calculatedTotalPublicHolidays |-> acc.publicHolidays,
     calculatedFullWeeks |-> acc.days \div 7,
     calculatedFullFortnights |->
        IF inp.rev = "part_001" THEN Undefined ELSE acc.days \div 14,
     calculatedFullMonths |->
        IF inp.rev = "part_001" THEN Undefined
        ELSE Max(0, monthsDiffOf(inp.fromDate, inp.toDate)),
     suggestedDailyHours |-> suggestionOf(inp, acc),
     visited |-> acc.visited,
     unroundedPay |-> payOf(inp, acc)]

\* variant: the day counter depends on how many calculations ran before
calculateAllTotalsCounting(inp) ==
    [(IF InvalidRange(inp)
      THEN ErrorResult
      ELSE resultOf(inp, dayLoop(inp, [d |-> inp.fromDate, acc |-> ZeroTotals])))
     EXCEPT !.calculatedTotalDays = @ + edits]

\* calculateAllTotals of a revision whose calculation returns its result
calculateAllTotals(inp) ==
    IF InvalidRange(inp)
    THEN ErrorResult
    ELSE resultOf(inp, dayLoop(inp, [d |-> inp.fromDate, acc |-> ZeroTotals]))

(***************************************************************************)
(* Recalculation after a render.                                           *)
(*   App.jsx: the useEffect runs when one of its dependencies changed; on  *)
(*   an invalid range it sets the error and returns before any result      *)
(*   setter is called, so the result state keeps its values.               *)
(*   part_00x: calculationResults is useMemo(calculateAllTotals(...)), and *)
(*   an effect copies calculationResults.error into error when it changes. *)
(* handlerError is the error state the handler itself left.                *)
(***************************************************************************)
\* variant: the day counter is carried over from the earlier result
resultsAfterKeepingDays(inp, prev, changed) ==
    [calculateAllTotals(inp) EXCEPT !.calculatedTotalDays = prev.calculatedTotalDays]

resultsAfter(inp, prev, changed) ==
    IF inp.rev \in EffectRevisions
    THEN IF ~changed \/ InvalidRange(inp) THEN prev ELSE calculateAllTotals(inp)
    ELSE calculateAllTotals(inp)

errorAfter(inp, prev, changed, handlerError) ==
    IF inp.rev \in EffectRevisions
    THEN IF ~changed THEN handlerError
         ELSE IF InvalidRange(inp) THEN "range" ELSE ""
    ELSE LET newError == IF InvalidRange(inp) THEN ErrorResult.error ELSE ""
         IN  IF newError # prev.error THEN newError ELSE handlerError

\* the result state before the first calculation (useState(0), useState({}))
InitialResults ==
    [ErrorResult EXCEPT
        !.error = "",
        !.totalHours = 0, !.totalPay = 0,
        !.weekdayHours = 0, !.saturdayHours = 0, !.sundayHours = 0,
        !.publicHolidayHours = 0,
        !.weekdayPay = 0, !.saturdayPay = 0, !.sundayPay = 0,
        !.publicHolidayPay = 0,
        !.calculatedTotalDays = 0, !.calculatedTotalWeekdays = 0,
        !.calculatedTotalSaturdays = 0, !.calculatedTotalSundays = 0,
        !.calculatedTotalPublicHolidays = 0,
        !.calculatedFullWeeks = 0, !.calculatedFullFortnights = 0,
        !.calculatedFullMonths = 0]

\* a result figure, 0 when the revision does not produce it
Figure(x) == IF x = Undefined THEN 0 ELSE x

CurrentInputs ==
    InputsOf(rev, tz, fromDate, toDate, recurringType, weeklyDays,
             includePublicHolidays, publicHolidaysInput, rates, budget, budgetMode)

(***************************************************************************)
(* Input values.                                                           *)
(***************************************************************************)
TimeZones == {-5, 0, 10}
\* the five options of the select and a value that is none of them
RecurringOptions == {"Daily", "Weekly", "Fortnightly", "Monthly", "Quarterly"}
RecurringTypes == RecurringOptions \cup {"Yearly"}

Weekdays == {"Monday", "Tuesday", "Wednesday", "Thursday", "Friday"}

PatternOf(sel, hrs, eve) ==
    [n \in DayNames |->
        [selected |-> n \in sel, hours |-> hrs[n],
         shift |-> IF n \in eve THEN "evening" ELSE "day"]]

Uniform(h) == [n \in DayNames |-> h]
\* Monday to Friday 8 h, Saturday 4 h, Sunday empty
WorkWeekHours ==
    [n \in DayNames |->
        IF n \in Weekdays THEN 8000 ELSE IF n = "Saturday" THEN 4000 ELSE Blank]
\* Monday empty, Saturday "0", the others 0.125 h
SparseHours ==
    [n \in DayNames |->
        IF n = "Monday" THEN Blank ELSE IF n = "Saturday" THEN 0 ELSE 125]

CalcPatterns ==
    {PatternOf({}, Uniform(5000), {}),
     PatternOf({"Monday"}, Uniform(5000), {}),
     PatternOf({"Monday"}, Uniform(5000), {"Monday"}),
     PatternOf(Weekdays \cup {"Saturday"}, WorkWeekHours, {}),
     PatternOf(DayNames, WorkWeekHours, {"Tuesday"}),
     PatternOf(DayNames, Uniform(5000), {}),
     PatternOf(DayNames, Uniform(125), {"Monday", "Tuesday"}),
     PatternOf(DayNames, SparseHours, {})}

RatesOf(wd, eve, sat, sun, ph) ==
    [weekday |-> wd, weekdayEvening |-> eve, saturday |-> sat, sunday |-> sun,
     publicHoliday |-> ph]

CalcMoney ==
    {[rates |-> RatesOf(40, 45, 60, 70, 80), budget |-> 500, budgetMode |-> "noBudget"],
     [rates |-> RatesOf(50, 55, 60, 70, 100), budget |-> 1000, budgetMode |-> "lock"],
     [rates |-> RatesOf(1, 1, 1, 1, 1), budget |-> 10, budgetMode |-> "lock"],
     [rates |-> RatesOf(Blank, Blank, 60, Blank, Blank), budget |-> Blank, budgetMode |-> "lock"]}

\* 2025-01-04 (Saturday), an empty token, 2025-01-06 (Monday),
\* 2025-01-12 (Sunday), 2025-02-02 (Sunday)
CustomHolidays == <<3, BlankToken, 5, 11, 32>>

CalcHolidays ==
    {[include |-> TRUE, text |-> DEFAULT_QLD_PUBLIC_HOLIDAYS],
     [include |-> TRUE, text |-> CustomHolidays],
     [include |-> FALSE, text |-> CustomHolidays]}

\* 2025-01-01..01-28, 2025-01-06..01-12, the single day 2025-01-04,
\* 2025-02-25..MaxDay (2025-04-10), and two invalid ranges
CalcRanges ==
    {<<0, 27>>, <<5, 11>>, <<3, 3>>, <<55, MaxDay>>,
     <<5, 3>>, <<InvalidDate, 27>>}

(***************************************************************************)
(* SpecCalc: one calculation on inputs drawn from the sets above.          *)
(***************************************************************************)
InitCalc ==
    /\ rev \in Revisions
    /\ tz \in TimeZones
    /\ \E r \in CalcRanges : fromDate = r[1] /\ toDate = r[2]
    /\ recurringType \in RecurringTypes
    /\ weeklyDays \in CalcPatterns
    /\ \E h \in CalcHolidays :
          includePublicHolidays = h.include /\ publicHolidaysInput = h.text
    /\ \E m \in CalcMoney :
          rates = m.rates /\ budget = m.budget /\ budgetMode = m.budgetMode
    /\ results = InitialResults
    /\ error = ""
    /\ pc = "pending"
    /\ edits = 0
    /\ ndisRates = << >>
    /\ rateInfo = [k \in RateKeys |-> NoRateInfo]
    /\ quoteDescription = ""
    /\ savedQuotes = << >>
    /\ uuidCount = 0

\* the first render: the effect (App.jsx) or the memo (part_00x) runs
Calculate ==
    /\ pc = "pending"
    /\ results' = resultsAfter(CurrentInputs, results, TRUE)
    /\ error' = errorAfter(CurrentInputs, results, TRUE, error)
    /\ pc' = "done"
    /\ UNCHANGED <<rev, tz, inputVars, edits, ndisRates, rateInfo, quoteVars>>

NextCalc == Calculate

SpecCalc == InitCalc /\ [][NextCalc]_vars

(***************************************************************************)
(* Spec: the application.  A behaviour starts from a form as earlier edits *)
(* left it (every preset is reached from the constructed form with the     *)
(* handlers below, and its range is valid, so the results are those of the *)
(* last calculation) and continues with at most MaxEdits handler calls.    *)
(* Each handler action includes the render that follows it: the effect or  *)
(* memo that recalculates.                                                 *)
(***************************************************************************)
\* useState of weeklyDays: nothing selected, all hours ''
BlankPattern == PatternOf({}, Uniform(Blank), {})

\* the entries of one item: the first Saturday entry that contains "care"
\* belongs to another item, the evening entry follows a night entry, there
\* is no Sunday entry, and the public holiday entry has no QLD price
CareCatalogue ==
    <<[name |-> "Care - Weekday Daytime", number |-> "01_011", QLD |-> 67],
      [name |-> "Home Care - Saturday", number |-> "01_403", QLD |-> 102],
      [name |-> "Care - Weekday Night", number |-> "01_002", QLD |-> 75],
      [name |-> "Care - Weekday Evening", number |-> "01_015", QLD |-> 74],
      [name |-> "Care - Saturday", number |-> "01_013", QLD |-> 95],
      [name |-> "Care - Public Holiday", number |-> "01_012", QLD |-> Undefined]>>
\* an entry without a suffix, and two entries of another item
TransportCatalogue ==
    <<[name |-> "Transport", number |-> "02_051", QLD |-> 1],
      [name |-> "Access - Sunday", number |-> "04_106", QLD |-> 120],
      [name |-> "Access - Day Program", number |-> "04_102", QLD |-> 60]>>

\* the constructed form
BlankForm ==
    [fromDate |-> 0, toDate |-> 27, recurringType |-> "Weekly",
     weeklyDays |-> BlankPattern,
     includePublicHolidays |-> TRUE, publicHolidaysInput |-> DEFAULT_QLD_PUBLIC_HOLIDAYS,
     rates |-> RatesOf(Blank, Blank, Blank, Blank, Blank),
     budget |-> Blank, budgetMode |-> "noBudget",
     ndisRates |-> CareCatalogue, quoteDescription |-> "", stored |-> FALSE]
\* a form filled in, with a description typed and a quote saved earlier
LockedForm ==
    [fromDate |-> 0, toDate |-> 27, recurringType |-> "Weekly",
     weeklyDays |-> PatternOf({"Monday", "Saturday"}, Uniform(5000), {}),
     includePublicHolidays |-> TRUE, publicHolidaysInput |-> DEFAULT_QLD_PUBLIC_HOLIDAYS,
     rates |-> RatesOf(40, 45, 60, 70, 80),
     budget |-> 1000, budgetMode |-> "lock",
     ndisRates |-> TransportCatalogue, quoteDescription |-> " Plan A ", stored |-> TRUE]
\* a form filled in after a quote was saved, the catalogue not loaded, and
\* only spaces typed as the description
SaturdayForm ==
    [fromDate |-> 3, toDate |-> 3, recurringType |-> "Weekly",
     weeklyDays |-> PatternOf({"Saturday"}, Uniform(130), {}),
     includePublicHolidays |-> FALSE, publicHolidaysInput |-> DEFAULT_QLD_PUBLIC_HOLIDAYS,
     rates |-> RatesOf(1, 1, 1, 1, 1),
     budget |-> 1000, budgetMode |-> "lock",
     ndisRates |-> << >>, quoteDescription |-> "  ", stored |-> TRUE]

AppPresets == {BlankForm, LockedForm, SaturdayForm}

\* values typed or picked in the form
AppDays == {"Monday", "Saturday"}
AppTimeZones == {0}
AppRecurringTypes == {"Weekly", "Fortnightly", "Monthly"}
AppFromDates == {5, InvalidDate}
AppToDates == {3, 11}
\* 0.125 h, '' and the rejected 25 h
AppHours == {125, Blank, 25000}
AppRateKeys == {"weekday", "saturday"}
AppRateValues == {50}
AppBudgets == {500}
AppRateTypes == {"weekday", "saturday"}
AppDescriptions == {"Plan B"}
\* the options the select of the revision offers
SelectOptions(r) ==
    IF r = "part_000" THEN {"Weekly", "Fortnightly"} ELSE RecurringOptions

\* the rate texts and the catalogue names of the rates object
ratesIn(entries) ==
    RatesOf(entries["weekday"].rate, entries["weekdayEvening"].rate,
            entries["saturday"].rate, entries["sunday"].rate,
            entries["publicHoliday"].rate)
infoOf(e) == [name |-> e.name, number |-> e.number]
infoIn(entries) ==
    [weekday |-> infoOf(entries["weekday"]),
     weekdayEvening |-> infoOf(entries["weekdayEvening"]),
     saturday |-> infoOf(entries["saturday"]),
     sunday |-> infoOf(entries["sunday"]),
     publicHoliday |-> infoOf(entries["publicHoliday"])]

\* the rates object of part_001: { name, rate, number } for each key
entryOf(rs, info, k) == [name |-> info[k].name, rate |-> rs[k], number |-> info[k].number]
rateEntriesOf(rs, info) ==
    [weekday |-> entryOf(rs, info, "weekday"),
     weekdayEvening |-> entryOf(rs, info, "weekdayEvening"),
     saturday |-> entryOf(rs, info, "saturday"),
     sunday |-> entryOf(rs, info, "sunday"),
     publicHoliday |-> entryOf(rs, info, "publicHoliday")]

NoDetails == [none |-> TRUE]

\* the object handleAddQuote builds from the state inp, res, info
\*   App.jsx:   { id, description, totalPay, totalHours, details: {...} }
\*   part_000:  { id, description, totalPay, totalHours }
\*   part_001:  { id, description, totalPay, totalHours, rates, results }
quoteOf(id, description, inp, res, info) ==
    [id |-> id,
     description |-> trim(description),
     totalPay |-> res.totalPay,
     totalHours |-> res.totalHours,
     details |->
        CASE inp.rev \in EffectRevisions ->
                [fromDate |-> inp.fromDate, toDate |-> inp.toDate,
                 recurringType |-> inp.recurringType,
                 weekdayRate |-> inp.rates["weekday"],
                 saturdayRate |-> inp.rates["saturday"],
                 sundayRate |-> inp.rates["sunday"],
                 publicHolidayRate |-> inp.rates["publicHoliday"],
                 weekdayHours |-> res.weekdayHours,
                 saturdayHours |-> res.saturdayHours,
                 sundayHours |-> res.sundayHours,
                 publicHolidayHours |-> res.publicHolidayHours,
                 weekdayPay |-> res.weekdayPay,
                 saturdayPay |-> res.saturdayPay,
                 sundayPay |-> res.sundayPay,
                 publicHolidayPay |-> res.publicHolidayPay]
          [] inp.rev = "part_000" -> NoDetails
          [] OTHER -> [rates |-> rateEntriesOf(inp.rates, info), results |-> res]]

\* variant: the quotes saved before take the totals of the new quote
appendQuoteRestamping(quotes, newQuote) ==
    Append([i \in 1..Len(quotes) |->
               [quotes[i] EXCEPT !.totalPay = newQuote.totalPay,
                                 !.totalHours = newQuote.totalHours]],
           newQuote)

\* setSavedQuotes(p => [...p, newQuote])
appendQuote(quotes, newQuote) == Append(quotes, newQuote)

\* variant: the quotes saved after the deleted one go with it
removeQuoteAndLater(quotes, id) ==
    SubSeq(quotes, 1, (CHOOSE i \in 1..Len(quotes) : quotes[i].id = id) - 1)

\* setSavedQuotes(p => p.filter(q => q.id !== id))
removeQuote(quotes, id) == SelectSeq(quotes, LAMBDA q : q.id # id)

\* the quote found in localStorage: saved from the filled-in form in an
\* earlier session
StoredQuote(r, z) ==
    LET inp == InputsOf(r, z, LockedForm.fromDate, LockedForm.toDate,
                        LockedForm.recurringType, LockedForm.weeklyDays,
                        LockedForm.includePublicHolidays,
                        LockedForm.publicHolidaysInput, LockedForm.rates,
                        LockedForm.budget, LockedForm.budgetMode)
    IN  quoteOf(1, "Earlier plan", inp, calculateAllTotals(inp),
                [k \in RateKeys |-> NoRateInfo])

Init ==
    /\ rev \in Revisions
    /\ tz \in AppTimeZones
    /\ error = ""
    /\ pc = "done"
    /\ edits = 0
    /\ \E p \in AppPresets :
          /\ fromDate = p.fromDate
          /\ toDate = p.toDate
          /\ recurringType = p.recurringType
          /\ weeklyDays = p.weeklyDays
          /\ includePublicHolidays = p.includePublicHolidays
          /\ publicHolidaysInput = p.publicHolidaysInput
          /\ rates = p.rates
          /\ budget = p.budget
          /\ budgetMode = p.budgetMode
          /\ ndisRates = p.ndisRates
          /\ quoteDescription = p.quoteDescription
          /\ savedQuotes = IF p.stored THEN <<StoredQuote(rev, tz)>> ELSE << >>
          /\ uuidCount = IF p.stored THEN 1 ELSE 0
    /\ rateInfo = [k \in RateKeys |-> NoRateInfo]
    /\ results = calculateAllTotals(CurrentInputs)

\* the day pattern the handler stores
\*   App.jsx:  every slot gets roundUpToTwoDecimals(suggested hours)
\*   part_001: every selected slot gets formatNumber(suggested hours)
appliedDays(r, wd, sug) ==
    IF ~sug.present THEN wd
    ELSE IF r \in EffectRevisions
    THEN [n \in DayNames |->
            [wd[n] EXCEPT !.hours = 10 * CeilMulDiv(sug.hours[n], sug.num, 10 * sug.den)]]
    ELSE [n \in DayNames |->
            IF wd[n].selected
            THEN [wd[n] EXCEPT !.hours = formatNumber(sug.hours[n], sug.num, sug.den)]
            ELSE wd[n]]

\* variant: the recalculation writes its suggestion into the day pattern
RefreshApplying(inp) ==
    LET snapshot ==
            InputsOf(inp.rev, inp.tz, inp.fromDate, inp.toDate, inp.recurringType,
                     inp.weeklyDays, inp.includePublicHolidays, inp.publicHolidaysInput,
                     inp.rates, inp.budget, inp.budgetMode)
    IN  [snapshot EXCEPT
            !.weeklyDays = appliedDays(inp.rev, @,
                                       calculateAllTotals(snapshot).suggestedDailyHours)]

\* the input snapshot with its derived constants recomputed
Refresh(inp) ==
    InputsOf(inp.rev, inp.tz, inp.fromDate, inp.toDate, inp.recurringType,
             inp.weeklyDays, inp.includePublicHolidays, inp.publicHolidaysInput,
             inp.rates, inp.budget, inp.budgetMode)

\* the state after a handler stored the inputs new and the catalogue names
\* info and left the error handlerError, and the following render
\* recalculated
CommitWith(new, handlerError, info) ==
    LET inp == Refresh(new)
        changed == inp # CurrentInputs
    IN  /\ pc = "done"
        /\ edits < MaxEdits
        /\ edits' = edits + 1
        /\ fromDate' = inp.fromDate
        /\ toDate' = inp.toDate
        /\ recurringType' = inp.recurringType
        /\ weeklyDays' = inp.weeklyDays
        /\ includePublicHolidays' = inp.includePublicHolidays
        /\ publicHolidaysInput' = inp.publicHolidaysInput
        /\ rates' = inp.rates
        /\ budget' = inp.budget
        /\ budgetMode' = inp.budgetMode
        /\ results' = resultsAfter(inp, results, changed)
        /\ error' = errorAfter(inp, results, changed, handlerError)
        /\ rateInfo' = info
        /\ UNCHANGED <<rev, tz, pc, ndisRates, quoteVars>>

Commit(new, handlerError) == CommitWith(new, handlerError, rateInfo)

setFromDate(v) == Commit([CurrentInputs EXCEPT !.fromDate = v], error)

setToDate(v) == Commit([CurrentInputs EXCEPT !.toDate = v], error)

setRecurringType(v) == Commit([CurrentInputs EXCEPT !.recurringType = v], error)

handleWeeklyDayChange(day) ==
    Commit([CurrentInputs EXCEPT !.weeklyDays[day].selected = ~@], error)

\* the shift button exists in part_00x, on weekday slots, disabled unless selected
handleShiftChange(day) ==
    /\ rev \notin EffectRevisions
    /\ day \in Weekdays
    /\ weeklyDays[day].selected
    /\ Commit([CurrentInputs EXCEPT
                  !.weeklyDays[day].shift = IF @ = "day" THEN "evening" ELSE "day"],
              error)

\* value === '' || (!isNaN(numValue) && numValue >= 0 && numValue <= 24)
hoursAccepted(value) == value = Blank \/ (value >= 0 /\ value <= 24000)

handleWeeklyHoursChange(day, value) ==
    IF hoursAccepted(value)
    THEN Commit([CurrentInputs EXCEPT !.weeklyDays[day].hours = value],
                IF rev \in EffectRevisions THEN "" ELSE error)
    ELSE Commit(CurrentInputs,
                IF rev \in EffectRevisions THEN "hours" ELSE error)

setIncludePublicHolidays(b) ==
    Commit([CurrentInputs EXCEPT !.includePublicHolidays = b], error)

setPublicHolidaysInput(text) ==
    Commit([CurrentInputs EXCEPT !.publicHolidaysInput = text], error)

\* App.jsx: handleValueChange(setXxxRate, value); part_00x: handleRateChange
handleRateChange(key, value) ==
    Commit([CurrentInputs EXCEPT !.rates[key] = value],
           IF rev \in EffectRevisions THEN "" ELSE error)

setAllRatesSame ==
    Commit([CurrentInputs EXCEPT
               !.rates = [k \in RateKeys |->
                            IF rev \in EffectRevisions /\ k = "weekdayEvening"
                            THEN @[k] ELSE @["weekday"]]],
           error)

\* App.jsx: handleValueChange(setBudget, value); part_00x: setBudget
setBudget(value) ==
    Commit([CurrentInputs EXCEPT !.budget = value],
           IF rev \in EffectRevisions THEN "" ELSE error)

setBudgetMode(m) == Commit([CurrentInputs EXCEPT !.budgetMode = m], error)

\* revisions that have the Apply Suggested Hours button
ApplyRevisions == {"App.jsx", "part_001"}

\* the button is rendered
\*   App.jsx:  budgetMode === 'lock' && totalPay > 0 && numericBudget > 0
\*             && totalPay !== numericBudget
\*   part_001: budgetMode === 'lock' && calculationResults.totalPay > 0
applyButtonShown ==
    IF rev \in EffectRevisions
    THEN /\ budgetMode = "lock"
         /\ results.totalPay > 0
         /\ ParseFloatOr0(budget) > 0
         /\ 10 * results.totalPay # ParseFloatOr0(budget) * 1000
    ELSE budgetMode = "lock" /\ results.totalPay > 0

applySuggestedHours ==
    /\ rev \in ApplyRevisions
    /\ applyButtonShown
    /\ Commit([CurrentInputs EXCEPT
                  !.weeklyDays = appliedDays(rev, weeklyDays, results.suggestedDailyHours)],
              error)

\* revisions that have the NDIS Rate Finder
RateFinderRevisions == {"part_000", "part_001", "part_001b"}

\* an item of the dropdown of rateType is picked
handleNdisRateSelect(rateType, item) ==
    LET after == rateEntriesAfterSelect(rev, ndisRates, rateEntriesOf(rates, rateInfo),
                                        rateType, item)
    IN  /\ rev \in RateFinderRevisions
        /\ edits < MaxEdits
        /\ preFiltered(rateType, item)
        /\ CommitWith([CurrentInputs EXCEPT !.rates = ratesIn(after)], error, infoIn(after))

\* a step that leaves the inputs of the calculation alone: no dependency of
\* the effect or the memo changed, the results stay
QuoteStep ==
    /\ pc = "done"
    /\ edits < MaxEdits
    /\ edits' = edits + 1
    /\ UNCHANGED <<rev, tz, inputVars, results, pc, ndisRates, rateInfo>>

setQuoteDescription(v) ==
    /\ QuoteStep
    /\ quoteDescription' = v
    /\ UNCHANGED <<savedQuotes, uuidCount, error>>

\* the Save Quote button: disabled={!totalPay && !totalHours}
saveQuoteDisabled == Figure(results.totalPay) = 0 /\ Figure(results.totalHours) = 0

handleAddQuote ==
    /\ ~saveQuoteDisabled
    /\ QuoteStep
    /\ IF trim(quoteDescription) = ""
       THEN /\ error' = "description"
            /\ UNCHANGED quoteVars
       ELSE /\ savedQuotes' =
                  appendQuote(savedQuotes,
                              quoteOf(uuidCount + 1, quoteDescription, CurrentInputs,
                                      results, rateInfo))
            /\ uuidCount' = uuidCount + 1
            /\ quoteDescription' = ""
            /\ error' = ""

\* the Delete button of a saved quote
handleDeleteQuote(id) ==
    /\ \E i \in 1..Len(savedQuotes) : savedQuotes[i].id = id
    /\ QuoteStep
    /\ savedQuotes' = removeQuote(savedQuotes, id)
    /\ UNCHANGED <<quoteDescription, uuidCount, error>>

Next ==
    \/ \E v \in AppFromDates : setFromDate(v)
    \/ \E v \in AppToDates : setToDate(v)
    \/ \E v \in SelectOptions(rev) \cap AppRecurringTypes : setRecurringType(v)
    \/ \E day \in AppDays : handleWeeklyDayChange(day)
    \/ \E day \in AppDays : handleShiftChange(day)
    \/ \E day \in AppDays, value \in AppHours : handleWeeklyHoursChange(day, value)
    \/ \E b \in BOOLEAN : setIncludePublicHolidays(b)
    \/ setPublicHolidaysInput(CustomHolidays)
    \/ \E key \in AppRateKeys, value \in AppRateValues : handleRateChange(key, value)
    \/ setAllRatesSame
    \/ \E value \in AppBudgets : setBudget(value)
    \/ \E m \in {"lock", "noBudget"} : setBudgetMode(m)
    \/ applySuggestedHours
    \/ \E rateType \in AppRateTypes, i \in 1..Len(ndisRates) :
          handleNdisRateSelect(rateType, ndisRates[i])
    \/ \E v \in AppDescriptions : setQuoteDescription(v)
    \/ handleAddQuote
    \/ \E id \in 1..MaxEdits + 1 : handleDeleteQuote(id)

Spec == Init /\ [][Next]_vars

(***************************************************************************)
(* Properties.                                                             *)
(***************************************************************************)
\* a forecast has been computed from the current inputs
Computed == pc = "done" /\ ~InvalidRange(CurrentInputs)

Visited == results.visited
VisitedIndexes == 1..Len(Visited)
CountedIndexes == {i \in VisitedIndexes : Visited[i].category # "skipped"}
IndexesIn(cats) == {i \in VisitedIndexes : Visited[i].category \in cats}

\* the slot of a weekday is selected with hours that evaluate to non-zero
SlotLive(n) == weeklyDays[n].selected /\ ParseFloatOr0(weeklyDays[n].hours) # 0
\* the unrounded hours the counted days of the buckets cats add up to:
\* every counted day adds the hours of the slot of its weekday
HoursIn(cats) ==
    LET perDay(k) ==
            ParseFloatOr0(weeklyDays[WEEK_DAYS_ORDER[k]].hours)
            * Cardinality({i \in IndexesIn(cats) : getDay(Visited[i].date) + 1 = k})
    IN  perDay(1) + perDay(2) + perDay(3) + perDay(4) + perDay(5) + perDay(6) + perDay(7)
ExposedCategoryPays ==
    Figure(results.weekdayPay) + Figure(results.weekdayEveningPay)
    + Figure(results.saturdayPay) + Figure(results.sundayPay)
    + Figure(results.publicHolidayPay)

\* C1: the four category day counters add up to countedDays; every counted
\* day is in the overall counter and in exactly one category counter, a
\* weekday on either shift in the weekday counter.
C1_CategoryCompleteness ==
    Computed =>
        /\ results.calculatedTotalWeekdays + results.calculatedTotalSaturdays
           + results.calculatedTotalSundays + results.calculatedTotalPublicHolidays
             = results.calculatedTotalDays
        /\ results.calculatedTotalDays = Cardinality(CountedIndexes)
        /\ results.calculatedTotalWeekdays
             = Cardinality(IndexesIn({"weekday", "weekdayEvening"}))
        /\ results.calculatedTotalSaturdays = Cardinality(IndexesIn({"saturday"}))
        /\ results.calculatedTotalSundays = Cardinality(IndexesIn({"sunday"}))
        /\ results.calculatedTotalPublicHolidays = Cardinality(IndexesIn({"publicHoliday"}))

\* a forecast with days in all four counters, one of them an evening weekday
C1_Witness ==
    /\ Computed
    /\ results.calculatedTotalWeekdays > 0
    /\ results.calculatedTotalSaturdays > 0
    /\ results.calculatedTotalSundays > 0
    /\ results.calculatedTotalPublicHolidays > 0
    /\ IndexesIn({"weekdayEvening"}) # {}
    /\ IndexesIn({"weekday"}) # {}

C3_HolidayPrecedence ==
    (Computed /\ includePublicHolidays) =>
        \A i \in CountedIndexes :
            Visited[i].date \in HolidaySetOf(TRUE, publicHolidaysInput)
                => Visited[i].category = "publicHoliday"

\* C4: a day whose slot is not selected, or whose slot hours evaluate to 0,
\* is skipped: it is in no counter and adds no hours.
C4_UnselectedOrZeroHoursSkipped ==
    Computed =>
        \A i \in VisitedIndexes :
            ~SlotLive(dayNameOf(Visited[i].date)) => Visited[i].category = "skipped"

\* the figures of a result are all zero or absent
NoFigureExposed(r) ==
    \A x \in {r.totalHours, r.totalPay, r.weekdayHours, r.weekdayEveningHours,
              r.saturdayHours, r.sundayHours, r.publicHolidayHours,
              r.weekdayPay, r.weekdayEveningPay, r.saturdayPay, r.sundayPay,
              r.publicHolidayPay, r.calculatedTotalDays, r.calculatedTotalWeekdays,
              r.calculatedTotalSaturdays, r.calculatedTotalSundays,
              r.calculatedTotalPublicHolidays} : Figure(x) = 0

\* C5: while the date range is invalid the exposed result carries no hour,
\* pay or day-count figure of an earlier forecast.
C5_InvalidRangeExposesNoFigures ==
    (pc = "done" /\ InvalidRange(CurrentInputs)) => NoFigureExposed(results)

AllSevenLive == \A n \in DayNames : SlotLive(n)

\* C10: the loop visits every date from range.from to range.to once, in
\* increasing order, and stops; with all seven slots selected with positive
\* hours under Weekly countedDays is the number of days of the range.
C10_LoopVisitsEachDateOnce ==
    Computed =>
        /\ Len(Visited) = toDate - fromDate + 1
        /\ \A i \in VisitedIndexes : Visited[i].date = fromDate + i - 1
        /\ (AllSevenLive /\ recurringType = "Weekly")
              => results.calculatedTotalDays = toDate - fromDate + 1

\* a range that crosses two month ends, every day of it counted
C10_Witness ==
    /\ Computed
    /\ toDate - fromDate > 31
    /\ AllSevenLive /\ recurringType = "Weekly"
    /\ results.calculatedTotalDays = toDate - fromDate + 1

\* a single-day range: one iteration
C10_SingleDayWitness ==
    Computed /\ fromDate = toDate /\ Len(Visited) = 1

\* the unrounded hours and pay of a bucket, from the days the loop counted
UnroundedHours(k) == HoursIn({k})
UnroundedPay(k) == HoursIn({k}) * ParseFloatOr0(rates[k])
\* the buckets whose figures the revision exposes
ExposedKeys ==
    IF rev \in EffectRevisions THEN RateKeys \ {"weekdayEvening"} ELSE RateKeys
ExposedHours ==
    [weekday |-> results.weekdayHours, weekdayEvening |-> results.weekdayEveningHours,
     saturday |-> results.saturdayHours, sunday |-> results.sundayHours,
     publicHoliday |-> results.publicHolidayHours]
ExposedPay ==
    [weekday |-> results.weekdayPay, weekdayEvening |-> results.weekdayEveningPay,
     saturday |-> results.saturdayPay, sunday |-> results.sundayPay,
     publicHoliday |-> results.publicHolidayPay]
\* shown (hundredths) is the least multiple of 0.01 not below v (thousandths)
IsCeilingOf(shown, v) == 10 * shown >= v /\ 10 * shown - v < 10

WeeklyCase ==
    /\ recurringType = "Weekly"
    /\ fromDate = 5 /\ toDate = 11
    /\ weeklyDays = PatternOf(Weekdays \cup {"Saturday"}, WorkWeekHours, {})
    /\ rates["weekday"] = 50 /\ rates["saturday"] = 60
    /\ HolidaySetOf(includePublicHolidays, publicHolidaysInput) = {}

\* C12: the weekly case gives weekdayHours = 40, weekdayPay = 2000.00,
\* saturdayHours = 4, saturdayPay = 240.00, totalHours = 44,
\* totalPay = 2240.00 and countedDays = 6.
C12_WeeklyCase ==
    (Computed /\ WeeklyCase) =>
        /\ results.weekdayHours = 4000
        /\ results.weekdayPay = 200000
        /\ results.saturdayHours = 400
        /\ results.saturdayPay = 24000
        /\ results.totalHours = 4400
        /\ results.totalPay = 224000
        /\ results.calculatedTotalDays = 6

\* the weekly case, computed
C12_Witness ==
    /\ Computed /\ WeeklyCase
    /\ results.calculatedTotalDays = 6
    /\ results.calculatedTotalWeekdays = 5
    /\ results.calculatedTotalSaturdays = 1

\* the unrounded total pay of the forecast, from the days the loop counted
CurrentPay == SumOver([k \in RateKeys |-> UnroundedPay(k)])
Suggestion == results.suggestedDailyHours

Abs(x) == IF x < 0 THEN -x ELSE x
\* a step of the Apply Suggested Hours button that stores a suggestion and
\* is followed by the recalculation of a valid range
AppliesSuggestion ==
    applySuggestedHours /\ Suggestion.present /\ ~InvalidRange(CurrentInputs)

\* C14: with a positive target budget and a positive current pay, after the
\* suggestion is applied to the hours and the forecast is rerun, totalPay is
\* within five cents (one cent per pay category) of the target budget.
C14_BudgetLockConvergence ==
    [][AppliesSuggestion =>
          Abs(results'.totalPay - 100 * ParseFloatOr0(budget)) <= 5]_vars

\* the fraction a / b in lowest terms
LowestTerms(a, b) == <<a \div GCD(a, b), b \div GCD(a, b)>>
ScalingFactor == <<Suggestion.num, Suggestion.den>>

SuggestedHours(n) ==
    LowestTerms(Suggestion.hours[n] * Suggestion.num, Suggestion.den)
CurrentHours(n) == ParseFloatOr0(weeklyDays[n].hours)

\* C16: a suggestion has an entry for each of the seven slots: the current
\* hours times the scaling factor for a selected slot, 0 for an unselected
\* slot, with one factor for all slots.
C16_SuggestedHours ==
    (Computed /\ Suggestion.present) =>
        /\ DOMAIN Suggestion.hours = DayNames
        /\ \A n \in DayNames :
              SuggestedHours(n) =
                 IF weeklyDays[n].selected
                 THEN LowestTerms(CurrentHours(n) * ScalingFactor[1], ScalingFactor[2])
                 ELSE <<0, 1>>

\* a suggestion for a pattern with a selected slot and an unselected slot
\* that both hold hours, scaled by a factor other than 1
C16_Witness ==
    /\ Computed /\ Suggestion.present
    /\ ScalingFactor # <<1, 1>>
    /\ \E n \in DayNames : weeklyDays[n].selected /\ SuggestedHours(n)[1] > 0
    /\ \E n \in DayNames :
          ~weeklyDays[n].selected /\ CurrentHours(n) > 0 /\ SuggestedHours(n) = <<0, 1>>

\* the hours the forms of Init hold
PresetHours == {p.weeklyDays[n].hours : p \in AppPresets, n \in DayNames}
HoursOf(wd) == [n \in DayNames |-> wd[n].hours]
\* the stored inputs a step changes
ChangedInputs == {i \in 1..Len(inputVars) : inputVars'[i] # inputVars[i]}

\* C17: a step (a handler and the recalculation that follows it) changes no
\* stored input but the one the handler writes, and the hours of the day
\* pattern change only in a step of handleWeeklyHoursChange or of
\* applySuggestedHours.
C17_RecalculationFrame ==
    [][/\ Cardinality(ChangedInputs) <= 1
       /\ HoursOf(weeklyDays') # HoursOf(weeklyDays) =>
             \/ applySuggestedHours
             \/ \E day \in AppDays, value \in AppHours :
                   handleWeeklyHoursChange(day, value)]_vars

\* after Apply Suggested Hours: a selected slot holds hours that were not
\* typed, and the forecast has been recomputed from them
C17_Witness ==
    /\ Computed /\ edits >= 1
    /\ \E n \in DayNames :
          /\ weeklyDays[n].selected
          /\ weeklyDays[n].hours \notin AppHours \cup PresetHours
          /\ \E i \in CountedIndexes : Visited[i].hours = weeklyDays[n].hours

\* C18: the stored hours of every slot are empty or a number from 0 to 24.
C18_StoredHoursInRange ==
    \A n \in DayNames :
        \/ weeklyDays[n].hours = Blank
        \/ weeklyDays[n].hours >= 0 /\ weeklyDays[n].hours <= 24000

\* C19: when the range is valid and the recalculation has run, the exposed
\* result is the forecast of the current inputs alone, in every field.
C19_WholesaleRecompute ==
    Computed => results = calculateAllTotals(CurrentInputs)

\* a forecast recomputed after the start of the range was edited
C19_Witness ==
    /\ Computed /\ edits >= 1
    /\ fromDate = 5
    /\ results.calculatedTotalDays > 0
    /\ results.totalPay > 0
    /\ Visited[1].date = 5

\* the calculation of the revision returns its result (useMemo), or it is
\* an effect that ran to its end on a valid range
CalculationReturned == pc = "done" /\ (rev \notin EffectRevisions \/ Computed)

ListedDates == {publicHolidaysInput[i] : i \in 1..Len(publicHolidaysInput)} \ {BlankToken}

\* C21: with holiday observance disabled the holiday set is empty whatever
\* the holiday text holds: no day is in the public-holiday bucket, the
\* holiday counter is 0 and the public-holiday hours and pay are 0.
C21_HolidaysDisabled ==
    (Computed /\ ~includePublicHolidays) =>
        /\ CurrentInputs.holidaySet = {}
        /\ IndexesIn({"publicHoliday"}) = {}
        /\ results.calculatedTotalPublicHolidays = 0
        /\ results.publicHolidayHours = 0
        /\ results.publicHolidayPay = 0

\* observance disabled, and a counted day whose date the text lists
C21_Witness ==
    /\ Computed /\ ~includePublicHolidays
    /\ \E i \in CountedIndexes :
          /\ Visited[i].date \in ListedDates
          /\ Visited[i].hours > 0
          /\ Visited[i].category # "publicHoliday"

\* the revisions whose result has the fullMonths figure (part_001 lines
\* 1-749 return no calculatedFullMonths and show none)
FullMonthsRevisions == Revisions \ {"part_001"}
\* (to.year - from.year) x 12 - from.month + to.month of the stored range
RangeMonths ==
    (getFullYear(toDate) - getFullYear(fromDate)) * 12
    - getMonth(fromDate) + getMonth(toDate)

RateEntry(rs, info, key) ==
    [name |-> info[key].name, rate |-> rs[key], number |-> info[key].number]
\* the catalogue entries whose lower-cased name contains the base name of
\* the entry picked and a keyword of the category key
RelatedIndexes(picked, key) ==
    {j \in 1..Len(ndisRates) :
        /\ includes(toLowerCase(ndisRates[j].name), baseNameOf(picked.name))
        /\ \E kw \in rateMappings[key] : includes(toLowerCase(ndisRates[j].name), kw)}
\* the effect the claim gives for the category key when picked is selected
\* as the base entry
RelatedRateSet(picked, key) ==
    IF RelatedIndexes(picked, key) = {}
    THEN RateEntry(rates', rateInfo', key) = RateEntry(rates, rateInfo, key)
    ELSE LET first == CHOOSE j \in RelatedIndexes(picked, key) :
                          \A k \in RelatedIndexes(picked, key) : j <= k
         IN  RateEntry(rates', rateInfo', key) = getInfo(ndisRates[first])

\* C23: when a base (Weekday Day) catalogue entry is selected, each of the
\* four other categories is set to the first catalogue entry, in catalogue
\* order, whose name contains the derived base name and a keyword of the
\* category; a category with no such entry keeps its rate entry.
C23_RelatedRates ==
    [][\A i \in 1..Len(ndisRates) :
          handleNdisRateSelect("weekday", ndisRates[i]) =>
             \A key \in DOMAIN rateMappings : RelatedRateSet(ndisRates[i], key)]_vars

\* C23 in the revisions whose handler looks for related entries
C23_RelatedRatesWhereMatched ==
    [][\A i \in 1..Len(ndisRates) :
          (rev # "part_000" /\ handleNdisRateSelect("weekday", ndisRates[i])) =>
             \A key \in DOMAIN rateMappings : RelatedRateSet(ndisRates[i], key)]_vars

\* a base entry was selected: Saturday holds the first of two Saturday
\* entries, evening the night entry, public holiday an entry without price,
\* and Sunday, with no entry, its earlier rate
C23_MatchedState ==
    /\ rateInfo["weekday"].name = "Care - Weekday Daytime"
    /\ rateInfo["saturday"].name = "Home Care - Saturday" /\ rates["saturday"] = 102
    /\ rateInfo["weekdayEvening"].name = "Care - Weekday Night"
    /\ rateInfo["publicHoliday"].number = "01_012" /\ rates["publicHoliday"] = 0
    /\ rateInfo["sunday"] = NoRateInfo /\ rates["sunday"] = Blank

QuoteIndexes == 1..Len(savedQuotes)
\* the saved quote at index i is in savedQuotes after the step, identical
\* in every field, and no quote after the step has its id with other fields
KeptIdentical(i) ==
    /\ \E j \in 1..Len(savedQuotes') : savedQuotes'[j] = savedQuotes[i]
    /\ \A j \in 1..Len(savedQuotes') :
          savedQuotes'[j].id = savedQuotes[i].id => savedQuotes'[j] = savedQuotes[i]

\* C24: a saved quote is an immutable snapshot: every step other than the
\* deletion of that quote (edits of dates, hours, rates or budget with their
\* recalculation, Apply Suggested Hours, adding or deleting another quote)
\* leaves it in savedQuotes with every field as it was.
C24_SavedQuoteImmutable ==
    [][\A i \in QuoteIndexes :
          KeptIdentical(i) \/ handleDeleteQuote(savedQuotes[i].id)]_vars

\* a quote saved in an earlier session, then a quote saved from the
\* current form with other figures: the first keeps its own
C24_Witness ==
    /\ Computed /\ Len(savedQuotes) = 2
    /\ savedQuotes[1].description = "Earlier plan"
    /\ savedQuotes[2].id = uuidCount
    /\ savedQuotes[1].totalPay # savedQuotes[2].totalPay
    /\ savedQuotes[2].totalPay = results.totalPay

\* the step appends a quote
AppendsQuote == handleAddQuote /\ Len(savedQuotes') = Len(savedQuotes) + 1
AppendedQuote == savedQuotes'[Len(savedQuotes')]
\* the forecast of the inputs held when the quote is appended
ForecastNow == calculateAllTotals(CurrentInputs)
\* the per-category figures a quote of the revision carries
CategoryFiguresOf(q) ==
    CASE rev \in EffectRevisions ->
            <<q.details.weekdayHours, q.details.saturdayHours, q.details.sundayHours,
              q.details.publicHolidayHours, q.details.weekdayPay, q.details.saturdayPay,
              q.details.sundayPay, q.details.publicHolidayPay>>
      [] rev = "part_000" -> << >>
      [] OTHER ->
            <<q.details.results.weekdayHours, q.details.results.weekdayEveningHours,
              q.details.results.saturdayHours, q.details.results.sundayHours,
              q.details.results.publicHolidayHours, q.details.results.weekdayPay,
              q.details.results.weekdayEveningPay, q.details.results.saturdayPay,
              q.details.results.sundayPay, q.details.results.publicHolidayPay>>
CategoryFiguresNow ==
    CASE rev \in EffectRevisions ->
            <<ForecastNow.weekdayHours, ForecastNow.saturdayHours, ForecastNow.sundayHours,
              ForecastNow.publicHolidayHours, ForecastNow.weekdayPay, ForecastNow.saturdayPay,
              ForecastNow.sundayPay, ForecastNow.publicHolidayPay>>
      [] rev = "part_000" -> << >>
      [] OTHER ->
            <<ForecastNow.weekdayHours, ForecastNow.weekdayEveningHours,
              ForecastNow.saturdayHours, ForecastNow.sundayHours,
              ForecastNow.publicHolidayHours, ForecastNow.weekdayPay,
              ForecastNow.weekdayEveningPay, ForecastNow.saturdayPay,
              ForecastNow.sundayPay, ForecastNow.publicHolidayPay>>

\* C25: when handleAddQuote appends a quote, the stored range is valid and
\* the totals and the per-category figures copied into the quote are those
\* of the forecast of the inputs held at that moment.
C25_QuoteMatchesForecast ==
    [][AppendsQuote =>
          /\ ~InvalidRange(CurrentInputs)
          /\ AppendedQuote.totalPay = ForecastNow.totalPay
          /\ AppendedQuote.totalHours = ForecastNow.totalHours
          /\ CategoryFiguresOf(AppendedQuote) = CategoryFiguresNow]_vars

\* C25 in the revisions whose calculation returns its result
C25_QuoteMatchesForecastWhereReturned ==
    [][(rev \notin EffectRevisions /\ AppendsQuote) =>
          /\ ~InvalidRange(CurrentInputs)
          /\ AppendedQuote.totalPay = ForecastNow.totalPay
          /\ AppendedQuote.totalHours = ForecastNow.totalHours
          /\ CategoryFiguresOf(AppendedQuote) = CategoryFiguresNow]_vars

\* C26: for every host time zone the date looked up in the holiday set is
\* the calendar date of the day itself, the one whose weekday selects the
\* slot: a counted day is in the public-holiday bucket iff its own date is
\* in the holiday set.
C26_HolidayDateIsDayDate ==
    Computed =>
        \A i \in CountedIndexes :
            Visited[i].category = "publicHoliday"
               <=> Visited[i].date \in HolidaySetOf(includePublicHolidays, publicHolidaysInput)

\* C26 on hosts at or west of UTC
C26_HolidayDateIsDayDateWestOfUTC ==
    (Computed /\ tz <= 0) =>
        \A i \in CountedIndexes :
            Visited[i].category = "publicHoliday"
               <=> Visited[i].date \in HolidaySetOf(includePublicHolidays, publicHolidaysInput)

\* the frame of Apply Suggested Hours on the day pattern
ApplyFrame ==
    /\ \A n \in DayNames :
          /\ weeklyDays'[n].selected = weeklyDays[n].selected
          /\ weeklyDays'[n].shift = weeklyDays[n].shift
          /\ ~weeklyDays[n].selected => weeklyDays'[n].hours = weeklyDays[n].hours
    /\ ~Suggestion.present => weeklyDays' = weeklyDays

\* C27: Apply Suggested Hours changes nothing in the day pattern but the
\* hours of selected slots: selected flags and shifts stay, the stored hours
\* of unselected slots stay, and with an empty suggestion the whole pattern
\* stays.
C27_ApplyChangesSelectedHoursOnly ==
    [][applySuggestedHours => ApplyFrame]_vars

\* C27 in the revision whose handler tests the selected flag
C27_ApplyChangesSelectedHoursOnlyWhereTested ==
    [][(rev \notin EffectRevisions /\ applySuggestedHours) => ApplyFrame]_vars

\* the forecast of the current inputs under another recurrence policy
ForecastUnder(policy) ==
    calculateAllTotals([CurrentInputs EXCEPT !.recurringType = policy])
\* the dates a forecast counted
CountedDates(r) ==
    {r.visited[i].date : i \in {j \in 1..Len(r.visited) : r.visited[j].category # "skipped"}}

FiguresAtMost(r, w) ==
    /\ r.calculatedTotalDays <= w.calculatedTotalDays
    /\ r.calculatedTotalWeekdays <= w.calculatedTotalWeekdays
    /\ r.calculatedTotalSaturdays <= w.calculatedTotalSaturdays
    /\ r.calculatedTotalSundays <= w.calculatedTotalSundays
    /\ r.calculatedTotalPublicHolidays <= w.calculatedTotalPublicHolidays
    /\ r.totalHours <= w.totalHours
    /\ r.weekdayHours <= w.weekdayHours
    /\ Figure(r.weekdayEveningHours) <= Figure(w.weekdayEveningHours)
    /\ r.saturdayHours <= w.saturdayHours
    /\ r.sundayHours <= w.sundayHours
    /\ r.publicHolidayHours <= w.publicHolidayHours

\* C29: for the same range, day pattern and holidays the days counted under
\* Quarterly are among those counted under Monthly, and the days counted
\* under Monthly and under Fortnightly are among those counted under Weekly;
\* countedDays and the hours of every category are at most the Weekly ones.
C29_PolicyOnlyRemovesDays ==
    (Computed /\ recurringType \in {"Fortnightly", "Monthly", "Quarterly"}) =>
        /\ CountedDates(results) \subseteq CountedDates(ForecastUnder("Weekly"))
        /\ FiguresAtMost(results, ForecastUnder("Weekly"))
        /\ recurringType = "Quarterly" =>
              /\ CountedDates(results) \subseteq CountedDates(ForecastUnder("Monthly"))
              /\ FiguresAtMost(results, ForecastUnder("Monthly"))

\* a Quarterly forecast that counts days, fewer than Monthly, which counts
\* fewer than Weekly
C29_Witness ==
    /\ Computed /\ recurringType = "Quarterly"
    /\ results.calculatedTotalDays > 0
    /\ results.calculatedTotalDays < ForecastUnder("Monthly").calculatedTotalDays
    /\ ForecastUnder("Monthly").calculatedTotalDays
          < ForecastUnder("Weekly").calculatedTotalDays

\* the quotes of a list but the one at index i, in their order
WithoutIndex(quotes, i) ==
    SubSeq(quotes, 1, i - 1) \o SubSeq(quotes, i + 1, Len(quotes))
\* the step appends exactly one quote at the end and clears the description
AppendsOneQuote ==
    /\ Len(savedQuotes') = Len(savedQuotes) + 1
    /\ SubSeq(savedQuotes', 1, Len(savedQuotes)) = savedQuotes
    /\ savedQuotes'[Len(savedQuotes')].description = trim(quoteDescription)
    /\ \A i \in QuoteIndexes : savedQuotes'[Len(savedQuotes')].id # savedQuotes[i].id
    /\ quoteDescription' = ""
\* the step removes exactly the quote with this id and keeps the others
RemovesQuote(id) ==
    \E i \in QuoteIndexes :
        /\ savedQuotes[i].id = id
        /\ \A j \in QuoteIndexes \ {i} : savedQuotes[j].id # id
        /\ savedQuotes' = WithoutIndex(savedQuotes, i)
QuoteListStep ==
    /\ savedQuotes' # savedQuotes =>
          \/ handleAddQuote /\ trim(quoteDescription) # "" /\ AppendsOneQuote
          \/ \E id \in 1..MaxEdits + 1 : handleDeleteQuote(id) /\ RemovesQuote(id)
    /\ (handleAddQuote /\ trim(quoteDescription) # "") => AppendsOneQuote
    /\ (handleAddQuote /\ trim(quoteDescription) = "") =>
          savedQuotes' = savedQuotes /\ error' # ""
    /\ \A id \in 1..MaxEdits + 1 : handleDeleteQuote(id) => RemovesQuote(id)

\* C30: savedQuotes changes only by a handleAddQuote whose description is
\* not blank after trimming, which appends exactly one quote at the end and
\* clears the description, or by handleDeleteQuote(id), which removes
\* exactly the quote with that id and keeps the others in their order; a
\* handleAddQuote with a blank description leaves savedQuotes as it is and
\* sets an error message.
C30_QuotesChangeByAddAndDelete ==
    [][QuoteListStep]_vars

\* after a quote was added to the stored one and the stored one deleted:
\* the added quote alone is left
C30_Witness ==
    /\ uuidCount = 2
    /\ Len(savedQuotes) = 1
    /\ savedQuotes[1].id = 2
    /\ quoteDescription = ""

\* a blank description was refused: the message is set, the list is as loaded
C30_RefusedState ==
    /\ error = "description"
    /\ trim(quoteDescription) = ""
    /\ savedQuotes = <<StoredQuote(rev, tz)>>

====
